---------------------------- MODULE Spec2Model ----------------------------
(***************************************************************************)
(* State-machine model of src/src/menu.c (mpv-menu-plugin): the parser of  *)
(* the `#menu:` annotations of input.conf, the menu tree it builds, and    *)
(* the registry of dynamic submenus rebuilt on every menu-open.            *)
(*                                                                         *)
(* Text is modelled at character level: a C string / bstr is a sequence of *)
(* one-character strings.  A Win32 menu (HMENU) is an index into `menus`;  *)
(* each menu is the sequence of its rows (MENUITEMINFOW records).          *)
(***************************************************************************)
EXTENDS Integers, Sequences, FiniteSets, TLC

VARIABLES
    menus,      \* HMENU -> sequence of rows; handle h is menus[h]
    id,         \* append_menu's `static UINT id`
    dyn_menus,  \* dyn_menus->entries, in registration order
    hmenu,      \* ctx->hmenu: NULL until load_menu has returned
    state,      \* ctx->state: the host snapshot read by the last show_menu
    uosc,       \* ctx->conf->uosc
    displayed,  \* whether the last show_menu call reached TrackPopupMenuEx
    nlines,     \* number of lines load_menu has read so far
    nopens,     \* number of show_menu calls so far
    issued,     \* history: every wID append_menu has stored, in order
    created,    \* history: every submenu append_submenu created for parse_menu
    marked,     \* history: every pass through parse_menu's `#@` branch
    title,      \* escape_title's argument (pure-function specification)
    escaped     \* <<escape_title's result>>, or <<>> until it has run

vars == <<menus, id, dyn_menus, hmenu, state, uosc, displayed, nlines,
          nopens, issued, created, marked, title, escaped>>

---------------------------------------------------------------------------
(* Bounds of the model.                                                    *)

MaxLines == 3
MaxOpens == 2
MaxTitleLen == 4
MaxTracks == 2
MaxEntries == 3

---------------------------------------------------------------------------
(* Program constants.                                                      *)

WM_USER == 1024

NULL == 0

MENU_PREFIX == <<"#", "m", "e", "n", "u", ":">>
MENU_PREFIX_UOSC == <<"#", "!">>
MENU_PREFIX_DYN == <<"#", "@">>

WHITESPACE == {" ", "\t", "\n", "\r", "\f"}

---------------------------------------------------------------------------
(* bstr helpers (misc/bstr.h) as menu.c uses them.                         *)

\* bstr_cut: drop the first n characters (n clipped to the length).
bstr_cut(str, n) ==
    IF n >= Len(str) THEN <<>> ELSE SubSeq(str, n + 1, Len(str))

\* bstr_splice(str, 0, end): the first `end` characters.
bstr_splice(str, end) ==
    IF end >= Len(str) THEN str ELSE SubSeq(str, 1, end)

\* Length of the longest prefix of str made only of characters in `set`.
RECURSIVE bstrspn(_, _)
bstrspn(str, set) ==
    IF str = <<>> \/ Head(str) \notin set THEN 0
    ELSE 1 + bstrspn(Tail(str), set)

\* bstrcspn: length of the longest prefix holding no character of `set`.
RECURSIVE bstrcspn(_, _)
bstrcspn(str, set) ==
    IF str = <<>> \/ Head(str) \in set THEN 0
    ELSE 1 + bstrcspn(Tail(str), set)

\* bstr_split: skip leading separators, return the token up to the next
\* separator and, in `rest`, what follows the token (separator included).
bstr_split(str, sep) ==
    LET s   == bstr_cut(str, bstrspn(str, sep))
        end == bstrcspn(s, sep)
    IN  [tok |-> bstr_splice(s, end), rest |-> bstr_cut(s, end)]

bstr_lstrip(str) == bstr_cut(str, bstrspn(str, WHITESPACE))

RECURSIVE bstr_rstrip(_)
bstr_rstrip(str) ==
    IF str # <<>> /\ str[Len(str)] \in WHITESPACE
    THEN bstr_rstrip(SubSeq(str, 1, Len(str) - 1))
    ELSE str

bstr_strip(str) == bstr_rstrip(bstr_lstrip(str))

bstr_startswith0(str, prefix) ==
    /\ Len(str) >= Len(prefix)
    /\ SubSeq(str, 1, Len(prefix)) = prefix

\* bstr_eatstart0: [ok, str] with the prefix removed when it was there.
bstr_eatstart0(str, prefix) ==
    IF bstr_startswith0(str, prefix)
    THEN [ok |-> TRUE, str |-> bstr_cut(str, Len(prefix))]
    ELSE [ok |-> FALSE, str |-> str]

bstr_equals0(str, s0) == str = s0

\* bstr_find: 0-based position of the first occurrence of tok, or -1.
RECURSIVE bstr_find(_, _)
bstr_find(str, tok) ==
    IF Len(str) < Len(tok) THEN -1
    ELSE IF bstr_startswith0(str, tok) THEN 0
    ELSE LET r == bstr_find(Tail(str), tok)
         IN  IF r < 0 THEN -1 ELSE r + 1

\* bstr_split_tok: split at the first occurrence of tok.
bstr_split_tok(str, tok) ==
    LET pos == bstr_find(str, tok)
    IN  IF pos < 0
        THEN [found |-> FALSE, left |-> str, right |-> <<>>]
        ELSE [found |-> TRUE, left |-> bstr_splice(str, pos),
              right |-> bstr_cut(str, pos + Len(tok))]

---------------------------------------------------------------------------
(* Titles.                                                                 *)

\* The loop of escape_title: `left`/`rest` are the C locals, `acc` is
\* `escaped`.
RECURSIVE escape_loop(_, _, _)
escape_loop(acc, left, rest) ==
    IF Len(rest) > 0
    THEN LET s == bstr_split(rest, {"&"})
         IN  escape_loop(acc \o left \o <<"&", "&">>, s.tok, s.rest)
    ELSE acc \o left

\* escape & to && for menu title
escape_title(t) ==
    LET s == bstr_split(t, {"&"})
    IN  escape_loop(<<>>, s.tok, s.rest)

\* format title as name\tkey
format_title(name, key) ==
    escape_title(IF Len(key) > 0 /\ ~bstr_equals0(key, <<"_">>)
                 THEN name \o <<"\t">> \o key
                 ELSE name)

---------------------------------------------------------------------------
(* The menu tree.  The operators below thread a record `w` holding the     *)
(* mutable program state (menus, id, dyn_menus and the history variables)  *)
(* plus the return values of the last call (ret, sub, fresh).              *)

World(m, i, d, is, cr, mk) ==
    [menus |-> m, id |-> i, dyn_menus |-> d, issued |-> is, created |-> cr,
     marked |-> mk, ret |-> 0, sub |-> NULL, fresh |-> FALSE]

\* Win32: number of rows of a menu.
GetMenuItemCount(w, h) == Len(w.menus[h])

\* Win32: a new, empty popup menu; its handle is returned in `sub`.
CreatePopupMenu(w) ==
    [w EXCEPT !.menus = Append(@, <<>>), !.sub = Len(w.menus) + 1]

\* Win32: InsertMenuItemW(hmenu, -1, TRUE, &mii) appends the row.
InsertMenuItemW(w, h, mii) ==
    [w EXCEPT !.menus[h] = Append(@, mii)]

\* Win32: the clear loop of dyn_menu_update, RemoveMenu(h, 0, MF_BYPOSITION)
\* while the menu has rows.  A removed row's submenu handle stays valid.
RECURSIVE RemoveAll(_, _)
RemoveAll(w, h) ==
    IF GetMenuItemCount(w, h) > 0
    THEN RemoveAll([w EXCEPT !.menus[h] = Tail(@)], h)
    ELSE w

\* The menus reachable from h through hSubMenu links (h included).
RECURSIVE Reach(_, _)
Reach(ms, h) ==
    {h} \cup UNION { Reach(ms, ms[h][i].hSubMenu) :
                        i \in {j \in DOMAIN ms[h] : ms[h][j].hSubMenu # NULL} }

\* Win32: EnableMenuItem(root, wid, MF_BYCOMMAND | enable).  The row is
\* looked up by identifier in root and its submenus; no row, no effect.
EnableMenuItem(w, root, wid, grayed) ==
    LET hs == Reach(w.menus, root)
        set(row) ==
            IF row.wID # wid THEN row
            ELSE [row EXCEPT !.fState =
                     IF grayed THEN @ \cup {"MFS_DISABLED"}
                     ELSE @ \ {"MFS_DISABLED"}]
    IN  [w EXCEPT !.menus =
            [h \in DOMAIN w.menus |->
                IF h \in hs
                THEN [i \in DOMAIN w.menus[h] |-> set(w.menus[h][i])]
                ELSE w.menus[h]]]

\* Win32: CheckMenuRadioItem(h, first, last, check, MF_BYPOSITION).  Every
\* existing position of first..last is visited; the one equal to `check`
\* is checked as a radio item, the others are unchecked.  `check` is a
\* UINT there: a negative argument is a position no menu has.
CheckMenuRadioItem(w, h, first, last, check) ==
    LET c == check
        set(i, row) ==
            IF i - 1 < first \/ i - 1 > last THEN row
            ELSE IF i - 1 = c
            THEN [row EXCEPT !.fType = @ \cup {"MFT_RADIOCHECK"},
                             !.fState = @ \cup {"MFS_CHECKED"}]
            ELSE [row EXCEPT !.fState = @ \ {"MFS_CHECKED"}]
    IN  [w EXCEPT !.menus[h] = [i \in DOMAIN @ |-> set(i, @[i])]]

\* Mutant of append_menu: `mii.wID = id` without the increment.
append_menu_same_id(w, h, fMask, fType, fState, t, submenu, data) ==
    LET mii == [wID        |-> w.id,
                fType      |-> IF "MIIM_FTYPE" \in fMask THEN fType ELSE {},
                fState     |-> IF "MIIM_STATE" \in fMask THEN fState ELSE {},
                dwTypeData |-> IF "MIIM_STRING" \in fMask THEN t ELSE <<>>,
                hSubMenu   |-> IF "MIIM_SUBMENU" \in fMask THEN submenu ELSE NULL,
                dwItemData |-> IF "MIIM_DATA" \in fMask THEN data ELSE <<>>]
        w1  == [w EXCEPT !.issued = Append(@, mii.wID)]
    IN  [InsertMenuItemW(w1, h, mii) EXCEPT !.ret = mii.wID]

\* append_menu: fill a MENUITEMINFOW from the masked arguments, give it the
\* next identifier and append it.  The identifier is returned in `ret`.
\* (`id` is a 32-bit UINT; the runs stay far below its wrap-around.)
append_menu(w, h, fMask, fType, fState, t, submenu, data) ==
    LET mii == [wID        |-> w.id,
                fType      |-> IF "MIIM_FTYPE" \in fMask THEN fType ELSE {},
                fState     |-> IF "MIIM_STATE" \in fMask THEN fState ELSE {},
                dwTypeData |-> IF "MIIM_STRING" \in fMask THEN t ELSE <<>>,
                hSubMenu   |-> IF "MIIM_SUBMENU" \in fMask THEN submenu ELSE NULL,
                dwItemData |-> IF "MIIM_DATA" \in fMask THEN data ELSE <<>>]
        w1  == [w EXCEPT !.id = @ + 1,
                         !.issued = Append(@, mii.wID)]
    IN  [InsertMenuItemW(w1, h, mii) EXCEPT !.ret = mii.wID]

\* Mutant of append_seprator: the separator is inserted without going
\* through append_menu, so it takes no identifier.
append_seprator_noid(w, h) ==
    [InsertMenuItemW(w, h, [wID |-> 0, fType |-> {"MFT_SEPARATOR"},
                            fState |-> {}, dwTypeData |-> <<>>,
                            hSubMenu |-> NULL, dwItemData |-> <<>>])
       EXCEPT !.ret = 0]

append_seprator(w, h) ==
    append_menu(w, h, {"MIIM_FTYPE"}, {"MFT_SEPARATOR"}, {}, <<>>, NULL, <<>>)

\* find_submenu: the first row of h that has a non-empty text, a submenu
\* and the text `name`; [hSubMenu, wID], or [NULL, 0] when there is none.
find_submenu(w, h, name) ==
    LET rows == w.menus[h]
        hits == {i \in DOMAIN rows :
                    /\ Len(rows[i].dwTypeData) # 0
                    /\ rows[i].hSubMenu # NULL
                    /\ rows[i].dwTypeData = name}
    IN  IF hits = {} THEN [hSubMenu |-> NULL, wID |-> 0]
        ELSE LET i == CHOOSE k \in hits : \A j \in hits : k <= j
             IN  [hSubMenu |-> rows[i].hSubMenu, wID |-> rows[i].wID]

\* append_submenu: the submenu of h titled t, created when h has none.
\* Returns the submenu in `sub`, its row's identifier in `ret`, and in
\* `fresh` whether it was created by this call.
append_submenu(w, h, t) ==
    LET found == find_submenu(w, h, t)
    IN  IF found.hSubMenu # NULL
        THEN [w EXCEPT !.sub = found.hSubMenu, !.ret = found.wID,
                       !.fresh = FALSE]
        ELSE LET w1 == CreatePopupMenu(w)
                 w2 == append_menu(w1, h, {"MIIM_STRING", "MIIM_SUBMENU"},
                                   {}, {}, t, w1.sub, <<>>)
             IN  [w2 EXCEPT !.sub = w1.sub, !.fresh = TRUE]

---------------------------------------------------------------------------
(* printf conversions used for the rows' commands and the chapter times.   *)

Digit(n) == <<"0", "1", "2", "3", "4", "5", "6", "7", "8", "9">>[n + 1]

RECURSIVE FmtNat(_)
FmtNat(n) ==
    IF n < 10 THEN <<Digit(n)>> ELSE FmtNat(n \div 10) \o <<Digit(n % 10)>>

\* "%d"
FmtD(n) == IF n < 0 THEN <<"-">> \o FmtNat(-n) ELSE FmtNat(n)

\* "%02d"
Fmt02D(n) == IF n >= 0 /\ n < 10 THEN <<"0">> \o FmtNat(n) ELSE FmtD(n)

\* "%f" of a time that is a whole number of seconds
FmtF(n) == FmtD(n) \o <<".", "0", "0", "0", "0", "0", "0">>

\* "set %s %d" / "set %s no"
CmdSet(prop, arg) == <<"s", "e", "t", " ">> \o prop \o <<" ">> \o arg

---------------------------------------------------------------------------
(* The projectors.  A list that is NULL and a list with no entries take    *)
(* the same early return, so both are the empty sequence here.             *)

RECURSIVE track_loop(_, _, _, _, _, _, _)
track_loop(w, item, list, i, type, prop, pos) ==
    IF i > Len(list) THEN w
    ELSE LET entry == list[i]
         IN  IF entry.type # type
             THEN track_loop(w, item, list, i + 1, type, prop, pos)
             ELSE LET checked == IF entry.selected THEN {"MFS_CHECKED"} ELSE {}
                      fState  == IF type = "sub" /\ entry.selected
                                       /\ pos # entry.id
                                 THEN checked \cup {"MFS_DISABLED"}
                                 ELSE checked
                      w1 == append_menu(w, item.hmenu,
                                {"MIIM_STRING", "MIIM_DATA", "MIIM_STATE"},
                                {}, fState,
                                format_title(entry.title, entry.lang), NULL,
                                <<CmdSet(prop, FmtD(entry.id))>>)
                  IN  track_loop(w1, item, list, i + 1, type, prop, pos)

update_track_menu(w, st, item, type, prop, pos) ==
    LET list == st.track_list
    IN  IF Len(list) = 0 THEN w
        ELSE LET count == GetMenuItemCount(w, item.hmenu)
                 w1    == track_loop(w, item, list, 1, type, prop, pos)
             IN  IF GetMenuItemCount(w1, item.hmenu) > count
                 THEN append_menu(w1, item.hmenu,
                          {"MIIM_STRING", "MIIM_DATA", "MIIM_STATE"}, {},
                          IF pos < 0 THEN {"MFS_CHECKED"} ELSE {},
                          escape_title(<<"O", "f", "f">>), NULL,
                          <<CmdSet(prop, <<"n", "o">>)>>)
                 ELSE w1

update_video_track_menu(w, st, item) ==
    update_track_menu(w, st, item, "video", <<"v", "i", "d">>, st.vid)

update_audio_track_menu(w, st, item) ==
    update_track_menu(w, st, item, "audio", <<"a", "i", "d">>, st.aid)

\* Mutant of update_sub_track_menu: the secondary position is passed.
update_sub_track_menu_sid2(w, st, item) ==
    update_track_menu(w, st, item, "sub", <<"s", "i", "d">>, st.sid2)

update_sub_track_menu(w, st, item) ==
    update_track_menu(w, st, item, "sub", <<"s", "i", "d">>, st.sid)

update_sub_track_menu2(w, st, item) ==
    update_track_menu(w, st, item, "sub", <<"s", "e", "c", "o", "n", "d", "a", "r", "y", "-", "s", "i", "d">>, st.sid2)

\* "[%02d:%02d:%02d]" of (int)time / 3600, / 60 % 60, % 60
ChapterTime(t) ==
    <<"[">> \o Fmt02D(t \div 3600) \o <<":">> \o Fmt02D((t \div 60) % 60)
            \o <<":">> \o Fmt02D(t % 60) \o <<"]">>

RECURSIVE chapter_loop(_, _, _, _)
chapter_loop(w, item, list, i) ==
    IF i > Len(list) THEN w
    ELSE LET entry == list[i]
             w1 == append_menu(w, item.hmenu, {"MIIM_STRING", "MIIM_DATA"},
                       {}, {},
                       format_title(entry.title, ChapterTime(entry.time)),
                       NULL,
                       <<<<"s", "e", "e", "k", " ">> \o FmtF(entry.time) \o <<" ", "a", "b", "s", "o", "l", "u", "t", "e">>>>)
         IN  chapter_loop(w1, item, list, i + 1)

update_chapter_menu(w, st, item) ==
    LET list == st.chapter_list
    IN  IF Len(list) = 0 THEN w
        ELSE LET w1 == chapter_loop(w, item, list, 1)
             IN  IF st.chapter >= 0
                 THEN CheckMenuRadioItem(w1, item.hmenu, 0, Len(list),
                                         st.chapter)
                 ELSE w1

RECURSIVE edition_loop(_, _, _, _)
edition_loop(w, item, list, i) ==
    IF i > Len(list) THEN w
    ELSE LET entry == list[i]
             w1 == append_menu(w, item.hmenu, {"MIIM_STRING", "MIIM_DATA"},
                       {}, {}, escape_title(entry.title), NULL,
                       <<<<"s", "e", "t", " ", "e", "d", "i", "t", "i", "o", "n", " ">> \o FmtD(entry.id)>>)
         IN  edition_loop(w1, item, list, i + 1)

\* Mutant of edition_pos: `pos = i` on every entry, matching or not.
edition_pos_last(list, edition) == Len(list) - 1

\* The `pos` local of update_edition_menu after its loop: the position of
\* the last entry whose id is the current edition, or -1.
edition_pos(list, edition) ==
    LET hits == {i \in DOMAIN list : list[i].id = edition}
    IN  IF hits = {} THEN -1
        ELSE (CHOOSE k \in hits : \A j \in hits : j <= k) - 1

update_edition_menu(w, st, item) ==
    LET list == st.edition_list
    IN  IF Len(list) = 0 THEN w
        ELSE LET pos == edition_pos(list, st.edition)
                 w1  == edition_loop(w, item, list, 1)
             IN  IF pos >= 0
                 THEN CheckMenuRadioItem(w1, item.hmenu, 0, Len(list), pos)
                 ELSE w1

RECURSIVE audio_device_loop(_, _, _, _)
audio_device_loop(w, item, list, i) ==
    IF i > Len(list) THEN w
    ELSE LET entry == list[i]
             t  == IF Len(entry.desc) = 0 THEN entry.name ELSE entry.desc
             w1 == append_menu(w, item.hmenu, {"MIIM_STRING", "MIIM_DATA"},
                       {}, {}, escape_title(t), NULL,
                       <<<<"s", "e", "t", " ", "a", "u", "d", "i", "o", "-", "d", "e", "v", "i", "c", "e", " ">> \o entry.name>>)
         IN  audio_device_loop(w1, item, list, i + 1)

\* The `pos` local of update_audio_device_menu after its loop.
audio_device_pos(list, name) ==
    LET hits == {i \in DOMAIN list : list[i].name = name}
    IN  IF hits = {} THEN -1
        ELSE (CHOOSE k \in hits : \A j \in hits : j <= k) - 1

update_audio_device_menu(w, st, item) ==
    LET list == st.audio_device_list
    IN  IF Len(list) = 0 THEN w
        ELSE LET pos == audio_device_pos(list, st.audio_device)
                 w1  == audio_device_loop(w, item, list, 1)
             IN  IF pos >= 0
                 THEN CheckMenuRadioItem(w1, item.hmenu, 0, Len(list), pos)
                 ELSE w1

---------------------------------------------------------------------------
(* The registry of dynamic submenus.                                       *)

\* dynamic menu providers
dyn_providers ==
    << [keyword |-> <<"t", "r", "a", "c", "k", "s", "/", "v", "i", "d", "e", "o">>,
        update |-> "update_video_track_menu"],
       [keyword |-> <<"t", "r", "a", "c", "k", "s", "/", "a", "u", "d", "i", "o">>,
        update |-> "update_audio_track_menu"],
       [keyword |-> <<"t", "r", "a", "c", "k", "s", "/", "s", "u", "b">>,
        update |-> "update_sub_track_menu"],
       [keyword |-> <<"t", "r", "a", "c", "k", "s", "/", "s", "u", "b", "-", "s", "e", "c", "o", "n", "d", "a", "r", "y">>,
        update |-> "update_sub_track_menu2"],
       [keyword |-> <<"c", "h", "a", "p", "t", "e", "r", "s">>,
        update |-> "update_chapter_menu"],
       [keyword |-> <<"e", "d", "i", "t", "i", "o", "n", "s">>,
        update |-> "update_edition_menu"],
       [keyword |-> <<"a", "u", "d", "i", "o", "-", "d", "e", "v", "i", "c", "e", "s">>,
        update |-> "update_audio_device_menu"] >>

\* item->update(state, item)
CallUpdate(w, st, item) ==
    CASE item.update = "update_video_track_menu" ->
            update_video_track_menu(w, st, item)
      [] item.update = "update_audio_track_menu" ->
            update_audio_track_menu(w, st, item)
      [] item.update = "update_sub_track_menu" ->
            update_sub_track_menu(w, st, item)
      [] item.update = "update_sub_track_menu2" ->
            update_sub_track_menu2(w, st, item)
      [] item.update = "update_chapter_menu" ->
            update_chapter_menu(w, st, item)
      [] item.update = "update_edition_menu" ->
            update_edition_menu(w, st, item)
      [] item.update = "update_audio_device_menu" ->
            update_audio_device_menu(w, st, item)

\* add_dyn_menu: register the submenu under the first provider whose
\* keyword equals `keyword`; nothing is registered when there is none.
add_dyn_menu(w, h, wid, keyword) ==
    LET hits == {i \in DOMAIN dyn_providers :
                    bstr_equals0(keyword, dyn_providers[i].keyword)}
    IN  IF hits = {} THEN w
        ELSE LET i == CHOOSE k \in hits : \A j \in hits : k <= j
             IN  [w EXCEPT !.dyn_menus =
                     Append(@, [hmenu |-> h, id |-> wid,
                                update |-> dyn_providers[i].update])]

\* One iteration of dyn_menu_update's loop: clear the submenu, run the
\* projector, enable or gray the parent row.
dyn_entry_update(w, st, root, item) ==
    LET w1 == RemoveAll(w, item.hmenu)
        w2 == CallUpdate(w1, st, item)
    IN  EnableMenuItem(w2, root, item.id, GetMenuItemCount(w2, item.hmenu) = 0)

RECURSIVE dyn_menu_loop(_, _, _, _)
dyn_menu_loop(w, st, root, i) ==
    IF i > Len(w.dyn_menus) THEN w
    ELSE dyn_menu_loop(dyn_entry_update(w, st, root, w.dyn_menus[i]),
                       st, root, i + 1)

dyn_menu_update(w, st, root) == dyn_menu_loop(w, st, root, 1)

---------------------------------------------------------------------------
(* The parser.                                                             *)

is_seprarator(text, u) ==
    bstr_equals0(text, <<"-">>) \/ (u /\ bstr_startswith0(text, <<"-", "-", "-">>))

\* parse_menu's `#@` branch: the submenu titled `name`, registered under
\* the keyword that follows the marker.
parse_dyn(w, h, name, comment) ==
    LET w1 == append_submenu(w, h, escape_title(name))
        w2 == [w1 EXCEPT
                 !.created = IF w1.fresh
                             THEN @ \cup {[parent |-> h, name |-> name,
                                           hmenu |-> w1.sub]}
                             ELSE @,
                 !.marked = @ \cup {[hmenu |-> w1.sub, id |-> w1.ret,
                                     fresh |-> w1.fresh,
                                     comment |-> comment]}]
    IN  IF w2.ret > 0 /\ Len(comment) > 0
        THEN LET keyword == bstr_rstrip(bstr_split(comment, {"#"}).tok)
             IN  add_dyn_menu(w2, w2.sub, w2.ret, keyword)
        ELSE w2

\* parse_menu's plain leaf: a row bound to the command, grayed when the
\* command is empty or a comment.
parse_leaf(w, h, key, cmd, name) ==
    LET w1 == append_menu(w, h, {"MIIM_STRING", "MIIM_DATA"}, {}, {},
                          format_title(name, key), NULL, <<cmd>>)
    IN  IF w1.ret > 0 /\ (Len(cmd) = 0 \/ bstr_startswith0(cmd, <<"#">>))
        THEN EnableMenuItem(w1, h, w1.ret, TRUE)
        ELSE w1

RECURSIVE parse_menu(_, _, _, _, _, _)
parse_menu(w, h, key, cmd, text, u) ==
    LET s1      == bstr_split(text, {">"})
        rest    == s1.rest
        s2      == bstr_split(s1.tok, {"#"})
        comment == s2.rest
        name    == bstr_strip(s2.tok)
    IN  IF Len(name) = 0 THEN w
        ELSE IF Len(rest) = 0
        THEN IF is_seprarator(name, u)
             THEN append_seprator(w, h)
             ELSE LET eat == bstr_eatstart0(comment, MENU_PREFIX_DYN)
                  IN  IF eat.ok
                      THEN parse_dyn(w, h, name, eat.str)
                      ELSE parse_leaf(w, h, key, cmd, name)
        ELSE LET w1 == append_submenu(w, h, escape_title(name))
                 w2 == [w1 EXCEPT
                          !.created = IF w1.fresh
                                      THEN @ \cup {[parent |-> h,
                                                    name |-> name,
                                                    hmenu |-> w1.sub]}
                                      ELSE @]
             IN  IF Len(comment) = 0
                 THEN parse_menu(w2, w2.sub, key, cmd, rest, u)
                 ELSE w2

\* split_menu: [ok, left, right] around the menu prefix.
split_menu(line, u) ==
    LET long  == bstr_split_tok(line, MENU_PREFIX)
        short == bstr_split_tok(line, MENU_PREFIX_UOSC)
        t     == IF long.found THEN long ELSE short
    IN  IF Len(line) = 0 THEN [ok |-> FALSE, left |-> <<>>, right |-> <<>>]
        ELSE IF ~long.found /\ (~u \/ ~short.found)
        THEN [ok |-> FALSE, left |-> <<>>, right |-> <<>>]
        ELSE [ok    |-> Len(bstr_strip(t.right)) > 0,
              left  |-> bstr_strip(t.left),
              right |-> bstr_strip(t.right)]

\* The body of load_menu's loop for one line of the file (the line has no
\* line break, bstr_getline having cut it off).
load_line(w, root, line0, u) ==
    LET line == bstr_lstrip(line0)
        eat  == bstr_eatstart0(line, <<"#">>)
        s    == bstr_split(line, WHITESPACE)
        key  == IF eat.ok THEN <<>> ELSE s.tok
        cmd  == IF eat.ok THEN bstr_strip(eat.str) ELSE bstr_strip(s.rest)
        sm   == split_menu(cmd, u)
    IN  IF Len(line) = 0 THEN w
        ELSE IF eat.ok /\ ~u THEN w
        ELSE IF sm.ok THEN parse_menu(w, root, key, cmd, sm.right, u)
        ELSE w

---------------------------------------------------------------------------
(* Inputs: the lines a configuration file is made of, and host snapshots.  *)

LineSubSpace    == <<"b", " ", "#", "m", "e", "n", "u", ":", " ", "S", "u", "b", "t", "i", "t", "l", "e", "s", " ", "#", "@", " ", "t", "r", "a", "c", "k", "s", "/", "s", "u", "b">>
LineAudio       == <<"_", " ", "#", "m", "e", "n", "u", ":", " ", "A", "u", "d", "i", "o", " ", "#", "@", "t", "r", "a", "c", "k", "s", "/", "a", "u", "d", "i", "o">>
LineAudioChap   == <<"_", " ", "#", "m", "e", "n", "u", ":", " ", "A", "u", "d", "i", "o", " ", "#", "@", "c", "h", "a", "p", "t", "e", "r", "s">>
LineAudioNext   == <<"a", " ", "x", " ", "#", "m", "e", "n", "u", ":", " ", "A", "u", "d", "i", "o", " ", ">", " ", "N", "e", "x", "t">>
LineSep         == <<"_", " ", "#", "m", "e", "n", "u", ":", " ", "-">>
LineDashes      == <<"#", " ", "#", "m", "e", "n", "u", ":", " ", "-", "-", "-">>
LineAmp         == <<"_", " ", "#", "m", "e", "n", "u", ":", " ", "&", " ", ">", " ", "P", "l", "a", "y">>
LineNestedSub   == <<"_", " ", "#", "m", "e", "n", "u", ":", " ", "A", "u", "d", "i", "o", " ", ">", " ", "S", "u", "b", "t", "i", "t", "l", "e", "s", " ", "#", "@", "t", "r", "a", "c", "k", "s", "/", "s", "u", "b">>
LineQuit        == <<"q", " ", "q", "u", "i", "t", " ", "#", "!", " ", "Q", "u", "i", "t">>
LineSubCut      == <<"_", " ", "#", "m", "e", "n", "u", ":", " ", "S", "u", "b", "t", "i", "t", "l", "e", "s", " ", "#", "@", "t", "r", "a", "c", "k", "s", "/", "s", "u", "b", " ", "#", "x">>

ConfLines ==
    {LineSubSpace, LineAudio, LineAudioChap, LineAudioNext, LineSep,
     LineDashes, LineAmp, LineNestedSub, LineQuit, LineSubCut}

Track(type, tid, t, lang, selected) ==
    [type |-> type, id |-> tid, title |-> t, lang |-> lang,
     selected |-> selected]

\* mp_state with nothing loaded: no lists, no selections.
NoState ==
    [track_list |-> <<>>, vid |-> -1, aid |-> -1, sid |-> -1, sid2 |-> -1,
     chapter_list |-> <<>>, chapter |-> -1,
     edition_list |-> <<>>, edition |-> -1,
     audio_device_list |-> <<>>, audio_device |-> <<"a", "u", "t", "o">>]

English == <<"E", "n", "g", "l", "i", "s", "h">>
Spanish == <<"S", "p", "a", "n", "i", "s", "h">>

\* One selected subtitle track, id 5.
StateSub5 ==
    [NoState EXCEPT
        !.track_list = <<Track("sub", 5, English, <<>>, TRUE)>>,
        !.sid = 5]

\* Two audio tracks, the first selected.
StateAudio ==
    [NoState EXCEPT
        !.track_list = <<Track("audio", 1, English, <<"e", "n">>, TRUE),
                         Track("audio", 2, Spanish, <<"e", "s">>, FALSE)>>,
        !.aid = 1]

\* Two chapters, the second current, and no track list.
StateChapters ==
    [NoState EXCEPT
        !.chapter_list = <<[title |-> <<"I", "n", "t", "r", "o">>, time |-> 65],
                           [title |-> <<"E", "n", "d">>, time |-> 3725]>>,
        !.chapter = 1]

\* A video track and two subtitle tracks, one primary, one secondary.
StateSubs ==
    [NoState EXCEPT
        !.track_list = <<Track("video", 1, <<"M", "a", "i", "n">>, <<>>, TRUE),
                         Track("sub", 1, English, <<>>, TRUE),
                         Track("sub", 2, Spanish, <<>>, TRUE)>>,
        !.vid = 1, !.sid = 1, !.sid2 = 2]

Snapshots == {NoState, StateSub5, StateAudio, StateChapters, StateSubs}

---------------------------------------------------------------------------
(* The state machine.                                                      *)

W == World(menus, id, dyn_menus, issued, created, marked)

\* The menu load_menu builds into: its local `hmenu`.
Root == 1

Store(w) ==
    /\ menus' = w.menus
    /\ id' = w.id
    /\ dyn_menus' = w.dyn_menus
    /\ issued' = w.issued
    /\ created' = w.created
    /\ marked' = w.marked

\* load_menu up to its loop: dyn_menu_init and CreatePopupMenu.
Init ==
    /\ menus = << <<>> >>
    /\ id = WM_USER + 100
    /\ dyn_menus = <<>>
    /\ hmenu = NULL
    /\ state = NoState
    /\ uosc \in BOOLEAN
    /\ displayed = FALSE
    /\ nlines = 0
    /\ nopens = 0
    /\ issued = <<>>
    /\ created = {}
    /\ marked = {}
    /\ title = <<>>
    /\ escaped = <<>>

\* load_menu: one iteration of the loop over the file's lines.
ReadLine ==
    /\ hmenu = NULL
    /\ nlines < MaxLines
    /\ \E line \in ConfLines : Store(load_line(W, Root, line, uosc))
    /\ nlines' = nlines + 1
    /\ UNCHANGED <<hmenu, state, uosc, displayed, nopens, title, escaped>>

\* load_menu: the file is exhausted, the menu is returned to the caller.
LoadDone ==
    /\ hmenu = NULL
    /\ hmenu' = Root
    /\ UNCHANGED <<menus, id, dyn_menus, state, uosc, displayed, nlines,
                   nopens, issued, created, marked, title, escaped>>

\* show_menu with the host in state st and the point inside the window's
\* client area or not.
show_menu(st, inside) ==
    /\ hmenu # NULL
    /\ nopens < MaxOpens
    /\ nopens' = nopens + 1
    /\ IF inside
       THEN /\ Store(dyn_menu_update(W, st, hmenu))
            /\ state' = st
            /\ displayed' = TRUE
       ELSE /\ displayed' = FALSE
            /\ UNCHANGED <<menus, id, dyn_menus, issued, created, marked,
                           state>>
    /\ UNCHANGED <<hmenu, uosc, nlines, title, escaped>>

ShowMenu == \E st \in Snapshots, inside \in BOOLEAN : show_menu(st, inside)

Next == ReadLine \/ LoadDone \/ ShowMenu

Spec == Init /\ [][Next]_vars

---------------------------------------------------------------------------
(* escape_title alone: every title up to MaxTitleLen over a small          *)
(* alphabet, escaped once.                                                 *)

TitleChars == {"a", "b", "&"}

Titles == UNION { [1..n -> TitleChars] : n \in 0..MaxTitleLen }

InitEscape ==
    /\ menus = << <<>> >>
    /\ id = WM_USER + 100
    /\ dyn_menus = <<>>
    /\ hmenu = NULL
    /\ state = NoState
    /\ uosc = FALSE
    /\ displayed = FALSE
    /\ nlines = 0
    /\ nopens = 0
    /\ issued = <<>>
    /\ created = {}
    /\ marked = {}
    /\ title \in Titles
    /\ escaped = <<>>

EscapeTitle ==
    /\ escaped = <<>>
    /\ escaped' = <<escape_title(title)>>
    /\ UNCHANGED <<menus, id, dyn_menus, hmenu, state, uosc, displayed,
                   nlines, nopens, issued, created, marked, title>>

NextEscape == EscapeTitle

SpecEscape == InitEscape /\ [][NextEscape]_vars

---------------------------------------------------------------------------
(* The projectors alone: a menu loaded from one `#@` line per provider,    *)
(* opened once with the host in any state of a bounded family.             *)

RECURSIVE load_lines(_, _, _, _)
load_lines(w, root, lines, u) ==
    IF lines = <<>> THEN w
    ELSE load_lines(load_line(w, root, Head(lines), u), root, Tail(lines), u)

InitLoaded(conf) ==
    LET w == load_lines(World(<< <<>> >>, WM_USER + 100, <<>>, <<>>, {}, {}),
                        Root, conf, FALSE)
    IN  /\ menus = w.menus
        /\ id = w.id
        /\ dyn_menus = w.dyn_menus
        /\ hmenu = Root
        /\ state = NoState
        /\ uosc = FALSE
        /\ displayed = FALSE
        /\ nlines = Len(conf)
        /\ nopens = 0
        /\ issued = w.issued
        /\ created = w.created
        /\ marked = w.marked
        /\ title = <<>>
        /\ escaped = <<>>

TrackConf ==
    << <<"_", " ", "#", "m", "e", "n", "u", ":", " ", "V", " ", "#", "@", "t", "r", "a", "c", "k", "s", "/", "v", "i", "d", "e", "o">>,
       <<"_", " ", "#", "m", "e", "n", "u", ":", " ", "A", " ", "#", "@", "t", "r", "a", "c", "k", "s", "/", "a", "u", "d", "i", "o">>,
       <<"_", " ", "#", "m", "e", "n", "u", ":", " ", "S", " ", "#", "@", "t", "r", "a", "c", "k", "s", "/", "s", "u", "b">>,
       <<"_", " ", "#", "m", "e", "n", "u", ":", " ", "S", "2", " ", "#", "@", "t", "r", "a", "c", "k", "s", "/", "s", "u", "b", "-", "s", "e", "c", "o", "n", "d", "a", "r", "y">> >>

TrackEntries ==
    { Track(ty, i, IF i = 1 THEN English ELSE Spanish,
            IF i = 1 THEN <<"e", "n">> ELSE <<>>, sel) :
        ty \in {"video", "audio", "sub"}, i \in 1..2, sel \in BOOLEAN }

TrackLists == UNION { [1..n -> TrackEntries] : n \in 0..MaxTracks }

TrackStates ==
    { [NoState EXCEPT !.track_list = l, !.vid = v, !.aid = v, !.sid = s,
                      !.sid2 = s2] :
        l \in TrackLists, v \in {-1, 1}, s \in {-1, 1, 2},
        s2 \in {-1, 1, 2} }

InitTrack == InitLoaded(TrackConf)

ShowTracks == \E st \in TrackStates : nopens = 0 /\ show_menu(st, TRUE)

NextTrack == ShowTracks

SpecTrack == InitTrack /\ [][NextTrack]_vars

RadioConf ==
    << <<"_", " ", "#", "m", "e", "n", "u", ":", " ", "C", " ", "#", "@", "c", "h", "a", "p", "t", "e", "r", "s">>,
       <<"_", " ", "#", "m", "e", "n", "u", ":", " ", "E", " ", "#", "@", "e", "d", "i", "t", "i", "o", "n", "s">>,
       <<"_", " ", "#", "m", "e", "n", "u", ":", " ", "D", " ", "#", "@", "a", "u", "d", "i", "o", "-", "d", "e", "v", "i", "c", "e", "s">> >>

ChapterEntries == { [title |-> <<"I", "n", "t", "r", "o">>, time |-> t] : t \in {0, 65} }

ChapterLists == UNION { [1..n -> ChapterEntries] : n \in 0..MaxEntries }

EditionEntries == { [id |-> i, title |-> <<"C", "u", "t">>] : i \in 0..1 }

EditionLists == UNION { [1..n -> EditionEntries] : n \in 0..MaxEntries }

DeviceEntries ==
    { [name |-> n, desc |-> d] :
        n \in {<<"a", "u", "t", "o">>, <<"h", "d", "m", "i">>}, d \in {<<>>, <<"S", "p", "k">>} }

DeviceLists == UNION { [1..n -> DeviceEntries] : n \in 0..MaxEntries }

RadioStates ==
    { [NoState EXCEPT !.chapter_list = l, !.chapter = c] :
        l \in ChapterLists, c \in -2..(MaxEntries + 1) }
    \cup
    { [NoState EXCEPT !.edition_list = l, !.edition = e] :
        l \in EditionLists, e \in -1..2 }
    \cup
    { [NoState EXCEPT !.audio_device_list = l, !.audio_device = n] :
        l \in DeviceLists, n \in {<<"a", "u", "t", "o">>, <<"h", "d", "m", "i">>, <<"n", "o", "n", "e">>} }

InitRadio == InitLoaded(RadioConf)

ShowRadio == \E st \in RadioStates : nopens = 0 /\ show_menu(st, TRUE)

NextRadio == ShowRadio

SpecRadio == InitRadio /\ [][NextRadio]_vars

---------------------------------------------------------------------------
(* Vocabulary of the properties.                                           *)

\* The rows of the displayed tree that carry identifier wid.
ParentRows(wid) ==
    { <<h, i>> \in UNION { {h} \X DOMAIN menus[h] : h \in Reach(menus, Root) } :
        menus[h][i].wID = wid }

IsGrayed(row) == "MFS_DISABLED" \in row.fState
IsChecked(row) == "MFS_CHECKED" \in row.fState
IsSeparator(row) == "MFT_SEPARATOR" \in row.fType

\* Every row of every menu, attached to the tree or not.
AllRows == UNION { { menus[h][i] : i \in DOMAIN menus[h] } : h \in DOMAIN menus }

\* A row without its identifier.
NoId(row) == [row EXCEPT !.wID = 0]

Rows(h) == [i \in DOMAIN menus[h] |-> NoId(menus[h][i])]

\* The rows projector `update` makes of snapshot st in an empty submenu.
Projected(update, st) ==
    LET w0 == World(<< <<>> >>, 0, <<>>, <<>>, {}, {})
        w1 == CallUpdate(w0, st, [hmenu |-> 1, id |-> 0, update |-> update])
    IN  [i \in DOMAIN w1.menus[1] |-> NoId(w1.menus[1][i])]

\* The host list a projector reads is absent or empty.
HostListEmpty(update, st) ==
    CASE update = "update_chapter_menu" -> Len(st.chapter_list) = 0
      [] update = "update_edition_menu" -> Len(st.edition_list) = 0
      [] update = "update_audio_device_menu" -> Len(st.audio_device_list) = 0
      [] OTHER -> Len(st.track_list) = 0

RECURSIVE SelectSeq2(_, _)
SelectSeq2(list, type) ==
    IF list = <<>> THEN <<>>
    ELSE IF Head(list).type = type
    THEN <<Head(list)>> \o SelectSeq2(Tail(list), type)
    ELSE SelectSeq2(Tail(list), type)

CheckedRows(h) == { i \in DOMAIN menus[h] : IsChecked(menus[h][i]) }

SlotsOf(update) == { i \in DOMAIN dyn_menus : dyn_menus[i].update = update }

---------------------------------------------------------------------------
(* C1: whenever the menu is displayed after a rebuild, the rows of every   *)
(* registered slot's submenu are exactly the rows the slot's own projector *)
(* produces from the current snapshot, in snapshot order.                  *)
C1_OwnRowsOnly ==
    displayed =>
        \A i \in DOMAIN dyn_menus :
            Rows(dyn_menus[i].hmenu) = Projected(dyn_menus[i].update, state)

(* C2: whenever the menu is displayed, the parent row of every registered  *)
(* slot is enabled if the slot's submenu has rows and grayed if it has     *)
(* none; a slot whose host list is absent or empty has a grayed parent.    *)
C2_ParentFollowsRows ==
    displayed =>
        \A i \in DOMAIN dyn_menus :
            \A p \in ParentRows(dyn_menus[i].id) :
                LET row == menus[p[1]][p[2]]
                IN  /\ IsGrayed(row) <=> Len(menus[dyn_menus[i].hmenu]) = 0
                    /\ HostListEmpty(dyn_menus[i].update, state)
                           => IsGrayed(row)

(* C3: after load_menu and before the first menu-open, every submenu       *)
(* created from a `#@` line has no rows and a grayed parent row.           *)
C3_DynEmptyAndGrayedBeforeOpen ==
    (hmenu # NULL /\ nopens = 0) =>
        \A m \in marked :
            m.fresh =>
                /\ Len(menus[m.hmenu]) = 0
                /\ \A p \in ParentRows(m.id) : IsGrayed(menus[p[1]][p[2]])

(* C4: after load_menu, lines that name the same submenu title under the   *)
(* same parent share one submenu container: no second one was created.     *)
C4_OneSubmenuPerTitle ==
    hmenu # NULL =>
        \A a \in created, b \in created :
            (a.parent = b.parent /\ a.name = b.name) => a.hmenu = b.hmenu

(* C5: identifiers are handed out sequentially from WM_USER + 100 by one   *)
(* counter, none twice, and the rows alive in the menus (rebuilt or not)   *)
(* carry pairwise different identifiers, all of them handed out.           *)
C5_IdsSequentialUnique ==
    /\ \A k \in DOMAIN issued : issued[k] = WM_USER + 100 + (k - 1)
    /\ id = WM_USER + 100 + Len(issued)
    /\ \A h1 \in DOMAIN menus, h2 \in DOMAIN menus :
        \A i1 \in DOMAIN menus[h1], i2 \in DOMAIN menus[h2] :
            menus[h1][i1].wID = menus[h2][i2].wID => (h1 = h2 /\ i1 = i2)
    /\ \A row \in AllRows : row.wID >= WM_USER + 100 /\ row.wID < id

C5_Witness ==
    /\ nopens = 2
    /\ displayed
    /\ Len(menus[Root]) >= 2
    /\ \E i \in DOMAIN dyn_menus : Len(menus[dyn_menus[i].hmenu]) >= 2
    /\ \E row \in AllRows : IsSeparator(row)

(* C6, as stated: a separator row never receives an identifier (none of   *)
(* the identifiers handed out is stored on it) and never has a command.    *)
C6_SeparatorHasNoId ==
    \A row \in AllRows :
        IsSeparator(row) =>
            /\ \A k \in DOMAIN issued : issued[k] # row.wID
            /\ row.dwItemData = <<>>

(* C6, amended: a separator row never has a command, a text or a submenu;  *)
(* it does take the next identifier of the shared counter, like any row.   *)
C6_SeparatorHasNoCommand ==
    \A row \in AllRows :
        IsSeparator(row) =>
            /\ row.dwItemData = <<>>
            /\ row.dwTypeData = <<>>
            /\ row.hSubMenu = NULL
            /\ \E k \in DOMAIN issued : issued[k] = row.wID

C6_Witness ==
    /\ uosc
    /\ hmenu # NULL
    /\ Len(menus[Root]) = 2
    /\ \A i \in DOMAIN menus[Root] : IsSeparator(menus[Root][i])

(* C7: for the chapter, edition and audio-device projectors and a          *)
(* non-empty list, a displayed submenu has one row per entry; exactly one  *)
(* row is checked when the current selection is valid, the row of a        *)
(* selected entry, and no row is checked when it is absent or invalid.     *)
C7_RadioSelection ==
    displayed =>
        /\ \A i \in SlotsOf("update_chapter_menu") :
            LET h == dyn_menus[i].hmenu
                n == Len(state.chapter_list)
            IN  /\ Len(menus[h]) = n
                /\ CheckedRows(h) =
                      IF state.chapter >= 0 /\ state.chapter <= n - 1
                      THEN {state.chapter + 1} ELSE {}
        /\ \A i \in SlotsOf("update_edition_menu") :
            LET h    == dyn_menus[i].hmenu
                list == state.edition_list
            IN  /\ Len(menus[h]) = Len(list)
                /\ \A k \in CheckedRows(h) : list[k].id = state.edition
                /\ Cardinality(CheckedRows(h)) =
                      IF \E k \in DOMAIN list : list[k].id = state.edition
                      THEN 1 ELSE 0
        /\ \A i \in SlotsOf("update_audio_device_menu") :
            LET h    == dyn_menus[i].hmenu
                list == state.audio_device_list
            IN  /\ Len(menus[h]) = Len(list)
                /\ \A k \in CheckedRows(h) :
                      list[k].name = state.audio_device
                /\ Cardinality(CheckedRows(h)) =
                      IF \E k \in DOMAIN list :
                            list[k].name = state.audio_device
                      THEN 1 ELSE 0

C7_Witness ==
    /\ displayed
    /\ Len(state.edition_list) = 2
    /\ state.edition_list[1].id # state.edition
    /\ state.edition_list[2].id = state.edition
    /\ \E i \in SlotsOf("update_edition_menu") :
          CheckedRows(dyn_menus[i].hmenu) = {2}

\* The title with each `&` doubled, character by character.
RECURSIVE Doubled(_)
Doubled(t) ==
    IF t = <<>> THEN <<>>
    ELSE (IF Head(t) = "&" THEN <<"&", "&">> ELSE <<Head(t)>>)
         \o Doubled(Tail(t))

(* C8: escape_title returns the title with every `&` replaced by `&&` and  *)
(* every other character unchanged and in order.                           *)
C8_EveryAmpersandDoubled ==
    escaped # <<>> => escaped[1] = Doubled(title)

\* The text after the `#@` marker, cut at a later `#` and trimmed on both
\* sides.
TrimmedKeyword(comment) ==
    bstr_strip(bstr_splice(comment, bstrcspn(comment, {"#"})))

(* C9: a `#@` leaf whose keyword, trimmed of whitespace on both sides and  *)
(* cut at a later `#`, is a provider keyword registers a slot for its      *)
(* submenu bound to that provider's projector.                             *)
C9_TrimmedKeywordRegisters ==
    \A m \in marked :
        \A k \in DOMAIN dyn_providers :
            (m.id > 0 /\ TrimmedKeyword(m.comment) = dyn_providers[k].keyword)
                => \E i \in DOMAIN dyn_menus :
                      /\ dyn_menus[i].hmenu = m.hmenu
                      /\ dyn_menus[i].update = dyn_providers[k].update

\* The submenu of each slot of `update` has one row per entry of `type`
\* plus "Off"; an entry's row is grayed exactly when the entry is a selected
\* subtitle whose id is not pos, and "Off" is not grayed.
TrackRowsGrayedBy(update, type, pos) ==
    \A i \in SlotsOf(update) :
        LET h    == dyn_menus[i].hmenu
            list == SelectSeq2(state.track_list, type)
        IN  /\ Len(menus[h]) = IF list = <<>> THEN 0 ELSE Len(list) + 1
            /\ \A k \in DOMAIN list :
                  IsGrayed(menus[h][k]) <=>
                      (type = "sub" /\ list[k].selected /\ list[k].id # pos)
            /\ list # <<>> => ~IsGrayed(menus[h][Len(list) + 1])

TrackRowsNeverGrayed(update) ==
    \A i \in SlotsOf(update) :
        \A k \in DOMAIN menus[dyn_menus[i].hmenu] :
            ~IsGrayed(menus[dyn_menus[i].hmenu][k])

(* C10, as stated: a track row is grayed only in the secondary-subtitle    *)
(* submenu, there exactly for the selected entries whose id is not the     *)
(* current secondary-sid; video, audio and primary-subtitle rows never.    *)
C10_OnlySecondaryGrayed ==
    displayed =>
        /\ TrackRowsGrayedBy("update_sub_track_menu2", "sub", state.sid2)
        /\ TrackRowsNeverGrayed("update_video_track_menu")
        /\ TrackRowsNeverGrayed("update_audio_track_menu")
        /\ TrackRowsNeverGrayed("update_sub_track_menu")

(* C10, amended: a track row is grayed only in the two subtitle submenus,  *)
(* there exactly for the selected entries whose id is not the submenu's    *)
(* own current id (sid for the primary, secondary-sid for the secondary);  *)
(* the "Off" row and the video and audio rows are never grayed.            *)
C10_SubtitleRowsGrayed ==
    displayed =>
        /\ TrackRowsGrayedBy("update_sub_track_menu2", "sub", state.sid2)
        /\ TrackRowsGrayedBy("update_sub_track_menu", "sub", state.sid)
        /\ TrackRowsGrayedBy("update_video_track_menu", "video", state.vid)
        /\ TrackRowsGrayedBy("update_audio_track_menu", "audio", state.aid)

C10_Witness ==
    /\ displayed
    /\ state.sid = 1
    /\ state.sid2 = 2
    /\ \E i \in SlotsOf("update_sub_track_menu") :
          LET rows == menus[dyn_menus[i].hmenu]
          IN  Len(rows) = 3 /\ ~IsGrayed(rows[1]) /\ IsGrayed(rows[2])
    /\ \E i \in SlotsOf("update_sub_track_menu2") :
          LET rows == menus[dyn_menus[i].hmenu]
          IN  Len(rows) = 3 /\ IsGrayed(rows[1]) /\ ~IsGrayed(rows[2])

===========================================================================
